---- MODULE Spec2Model ----
(***************************************************************************)
(* State-machine model of the sampling configuration subsystem of          *)
(* solarwinds-apm: the GrpcSampler settings sync loop (sampling/grpc.ts),  *)
(* its two-phase collector client, the warning de-duplication and the      *)
(* wire codec parseSettings.                                               *)
(***************************************************************************)
EXTENDS Integers, Sequences, FiniteSets, TLC

VARIABLES
  collector,           \* config.collector, a text kept as a sequence of tokens
  address,             \* this.#address, the parsed URL
  dns,                 \* the Promise.any name-resolution probe
  client,              \* this.#client: which CollectorClient is installed
  immediate,           \* the constructor's setImmediate callback is pending
  calls,               \* getSettings calls in flight
  timers,              \* pending setTimeout callbacks of #loop
  lastWarningMessage,  \* this.#lastWarningMessage
  ready,               \* the state of the `ready` promise
  settings,            \* the Settings published through updateSettings
  unhandled,           \* a rejection left the promise chain of #loop
  logged,              \* history: the text last handed to logger.warn
  raised,              \* history: the #warn calls of the latest handler
  issued,              \* history: getSettings calls issued so far
  completed,           \* history: attempts whose outcome is known
  updates,             \* history: updateSettings calls so far
  last,                \* history: the latest completed attempt
  prev,                \* history: the attempt completed before it
  latestOk,            \* history: decode of the latest successful response
  invalidRun,          \* history: the current run of decode failures
  streak,              \* history: failed attempts since the last success
  shutdown,            \* the agent has been shut down
  arg,                 \* the input of a function checked on its own
  result               \* its result

vars == << collector, address, dns, client, immediate, calls, timers,
           lastWarningMessage, ready, settings, unhandled, logged, raised,
           issued, completed, updates, last, prev, latestOk, invalidRun,
           streak, shutdown, arg, result >>

\* an absent value (undefined, null); a present scalar v is kept as <<v>>
None == << >>

Some(v) == <<v>>

(***************************************************************************)
(* Bounds of the model.                                                    *)
(***************************************************************************)
\* history counters saturate at this value
MaxCount == 3

Sat(n) == IF n < MaxCount THEN n + 1 ELSE n

\* the count of a streak of failures saturates at this value
MaxStreak == 20

SatStreak(n) == IF n < MaxStreak THEN n + 1 ELSE n

(***************************************************************************)
(* Timeouts.  retryTimeout * 1.5 is not an integer in general, so a        *)
(* duration is kept exactly, as whole milliseconds plus a binary fraction  *)
(* of a millisecond (the doubles of the code are exact on these values).   *)
(***************************************************************************)
FracUnits == 2 ^ 18

Ms(n) == [ms |-> n, frac |-> 0]

LeT(a, b) == a.ms < b.ms \/ (a.ms = b.ms /\ a.frac <= b.frac)

MinT(a, b) == IF LeT(a, b) THEN a ELSE b

REQUEST_TIMEOUT == 10 * 1000
RETRY_MIN_TIMEOUT == 500
RETRY_MAX_TIMEOUT == 10 * 60 * 1000
MULTIPLIER_NUM == 3
MULTIPLIER_DEN == 2

\* t * MULTIPLIER
TimesMultiplier(t) ==
  LET w == t.ms * MULTIPLIER_NUM
      f == t.frac * MULTIPLIER_NUM
      u == (w % MULTIPLIER_DEN) * (FracUnits \div MULTIPLIER_DEN)
             + (f \div MULTIPLIER_DEN)
  IN  [ms |-> (w \div MULTIPLIER_DEN) + (u \div FracUnits),
       frac |-> u % FracUnits]

(***************************************************************************)
(* The collector address (constructor, grpc.ts 76-86).  A text is a        *)
(* sequence of tokens; the two regular expressions and the URL parser are  *)
(* modelled on the token structure.                                        *)
(***************************************************************************)
HostNames == {"collector.example.com", "unresolvable.example.com"}
Ports == {"443", "8080"}
Schemes == {"https", "http"}

RECURSIVE Text(_)
Text(c) == IF c = << >> THEN "" ELSE Head(c) \o Text(Tail(c))

\* /:{0-9}+$/ : the text ends with ":{0-9" followed by one or more "}"
MatchesPortPattern(c) ==
  \E k \in 1..Len(c) :
    /\ Len(c) >= k + 2
    /\ \A i \in (Len(c) - k + 1)..Len(c) : c[i] = "}"
    /\ c[Len(c) - k] = "{0-9"
    /\ c[Len(c) - k - 1] = ":"

\* /^https?:/
MatchesScheme(c) ==
  /\ Len(c) >= 2
  /\ c[1] \in Schemes
  /\ c[2] \in {":", "://"}

\* a normalisation that adds the port and leaves the scheme out
NormalizeCollectorNoScheme(c) ==
  IF ~MatchesPortPattern(c) THEN c \o <<":", "443">> ELSE c

NormalizeCollector(c) ==
  LET a == IF ~MatchesPortPattern(c) THEN c \o <<":", "443">> ELSE c
  IN  IF ~MatchesScheme(a) THEN <<"https", "://">> \o a ELSE a

DefaultPort(scheme) == IF scheme = "https" THEN "443" ELSE "80"

\* new URL(text): the parsed URL, or None where the constructor throws
ParseURL(u) ==
  IF /\ Len(u) \in {3, 5}
     /\ u[1] \in Schemes
     /\ u[2] = "://"
     /\ u[3] \in HostNames
     /\ Len(u) = 5 => (u[4] = ":" /\ u[5] \in Ports)
  THEN LET port == IF Len(u) = 5 /\ u[5] # DefaultPort(u[1]) THEN u[5] ELSE ""
       IN  [protocol |-> u[1], hostname |-> u[3], port |-> port]
  ELSE None

InvalidAddress == [protocol |-> "https", hostname |-> "collector.invalid", port |-> ""]

InvalidCollector(c) ==
  [isError |-> TRUE, message |-> "Invalid collector (" \o Text(c) \o ")"]

(***************************************************************************)
(* Wire codec: parseSettings and parseBucketSetting (grpc.ts 293-375).     *)
(* An entry is [type, ttl, value, flags, arguments]: ttl and value are     *)
(* optional scalars, flags an optional text (tokens, "," the separator),   *)
(* arguments a sequence of [key, value] in the order of Object.entries.    *)
(* A payload is [len, double]: its length in bytes and the double its      *)
(* first eight bytes encode.                                               *)
(***************************************************************************)
DEFAULT_SAMPLE_RATE == "DEFAULT_SAMPLE_RATE"

FLAGS_NAMES ==
  [n \in {"OVERRIDE", "SAMPLE_START", "SAMPLE_THROUGH_ALWAYS", "TRIGGER_TRACE"} |->
     CASE n = "OVERRIDE" -> "OVERRIDE"
       [] n = "SAMPLE_START" -> "SAMPLE_START"
       [] n = "SAMPLE_THROUGH_ALWAYS" -> "SAMPLE_THROUGH_ALWAYS"
       [] n = "TRIGGER_TRACE" -> "TRIGGERED_TRACE"]

BUCKET_CAPACITY == "BucketCapacity"
BUCKET_RATE == "BucketRate"
TRIGGER_RELAXED_BUCKET_CAPACITY == "TriggerRelaxedBucketCapacity"
TRIGGER_RELAXED_BUCKET_RATE == "TriggerRelaxedBucketRate"
TRIGGER_STRICT_BUCKET_CAPACITY == "TriggerStrictBucketCapacity"
TRIGGER_STRICT_BUCKET_RATE == "TriggerStrictBucketRate"
SIGNATURE_KEY == "SignatureKey"

\* flagNames.split(","): the texts between the separators
RECURSIVE SplitFrom(_, _)
SplitFrom(text, cur) ==
  IF text = << >> THEN <<cur>>
  ELSE IF Head(text) = "," THEN <<cur>> \o SplitFrom(Tail(text), "")
  ELSE SplitFrom(Tail(text), cur \o Head(text))

Split(text) == SplitFrom(text, "")

\* names every object literal inherits from Object.prototype
InheritedNames == {"constructor", "toString"}

\* FLAGS_NAMES[flagName] (grpc.ts 310): undefined for a name the literal does
\* not have, an inherited member (a function, not a number) for a name of
\* Object.prototype
FlagValue(flagName) ==
  IF flagName \in DOMAIN FLAGS_NAMES THEN Some(FLAGS_NAMES[flagName])
  ELSE IF flagName \in InheritedNames THEN Some("function")
  ELSE None

\* the bits of `flags |= flagValue`: ToInt32 of a function is 0
Bits(flagValue) == IF flagValue = "function" THEN {} ELSE {flagValue}

\* a loop that stores the flag value where it should or it in
RECURSIVE OrFlagsAssigns(_, _)
OrFlagsAssigns(flags, names) ==
  IF names = << >> THEN flags
  ELSE OrFlagsAssigns(IF FlagValue(Head(names)) # None
                        THEN Bits(FlagValue(Head(names))[1])
                        ELSE flags,
                      Tail(names))

\* the loop over the flag names (grpc.ts 309-314): flags |= flagValue
RECURSIVE OrFlags(_, _)
OrFlags(flags, names) ==
  IF names = << >> THEN flags
  ELSE OrFlags(IF FlagValue(Head(names)) # None
                 THEN flags \cup Bits(FlagValue(Head(names))[1])
                 ELSE flags,
               Tail(names))

\* Buffer.from(value).readDoubleLE(): throws on fewer than eight bytes
ReadDoubleLE(value) == IF value.len >= 8 THEN Some(value.double) ELSE None

\* a parseBucketSetting that stores the bucket before it reads the payload
parseBucketSettingStoresFirst(st, type, key, value) ==
  LET bucket == IF type \in DOMAIN st.buckets
                  THEN st.buckets[type]
                  ELSE [capacity |-> 0, rate |-> 0]
      parsed == ReadDoubleLE(value)
  IN  [st EXCEPT !.buckets =
         [t \in DOMAIN st.buckets \cup {type} |->
            IF t = type
            THEN (IF parsed = None THEN bucket
                  ELSE [bucket EXCEPT ![key] = parsed[1]])
            ELSE st.buckets[t]]]

parseBucketSetting(st, type, key, value) ==
  LET bucket == IF type \in DOMAIN st.buckets
                  THEN st.buckets[type]
                  ELSE [capacity |-> 0, rate |-> 0]
      parsed == ReadDoubleLE(value)
  IN  IF parsed = None THEN st
      ELSE [st EXCEPT !.buckets =
              [t \in DOMAIN st.buckets \cup {type} |->
                 IF t = type THEN [bucket EXCEPT ![key] = parsed[1]]
                 ELSE st.buckets[t]]]

\* a switch whose trigger cases name each other's bucket
ParseArgumentSwapped(st, key, value) ==
  CASE key = BUCKET_CAPACITY -> parseBucketSetting(st, "DEFAULT", "capacity", value)
    [] key = BUCKET_RATE -> parseBucketSetting(st, "DEFAULT", "rate", value)
    [] key = TRIGGER_RELAXED_BUCKET_CAPACITY ->
         parseBucketSetting(st, "TRIGGER_STRICT", "capacity", value)
    [] key = TRIGGER_RELAXED_BUCKET_RATE ->
         parseBucketSetting(st, "TRIGGER_STRICT", "rate", value)
    [] key = TRIGGER_STRICT_BUCKET_CAPACITY ->
         parseBucketSetting(st, "TRIGGER_RELAXED", "capacity", value)
    [] key = TRIGGER_STRICT_BUCKET_RATE ->
         parseBucketSetting(st, "TRIGGER_RELAXED", "rate", value)
    [] key = SIGNATURE_KEY -> [st EXCEPT !.signatureKey = Some(value)]
    [] OTHER -> st

\* one turn of the switch over an argument key (grpc.ts 317-355)
ParseArgument(st, key, value) ==
  CASE key = BUCKET_CAPACITY -> parseBucketSetting(st, "DEFAULT", "capacity", value)
    [] key = BUCKET_RATE -> parseBucketSetting(st, "DEFAULT", "rate", value)
    [] key = TRIGGER_RELAXED_BUCKET_CAPACITY ->
         parseBucketSetting(st, "TRIGGER_RELAXED", "capacity", value)
    [] key = TRIGGER_RELAXED_BUCKET_RATE ->
         parseBucketSetting(st, "TRIGGER_RELAXED", "rate", value)
    [] key = TRIGGER_STRICT_BUCKET_CAPACITY ->
         parseBucketSetting(st, "TRIGGER_STRICT", "capacity", value)
    [] key = TRIGGER_STRICT_BUCKET_RATE ->
         parseBucketSetting(st, "TRIGGER_STRICT", "rate", value)
    [] key = SIGNATURE_KEY -> [st EXCEPT !.signatureKey = Some(value)]
    [] OTHER -> st

RECURSIVE ParseArguments(_, _)
ParseArguments(st, args) ==
  IF args = << >> THEN st
  ELSE ParseArguments(ParseArgument(st, Head(args).key, Head(args).value), Tail(args))

\* a decoder that does not look at the ttl before it builds the Settings
parseSettingsNoTtlCheck(unparsed) ==
  LET st == [sampleRate |-> IF unparsed.value = None THEN 0 ELSE unparsed.value[1],
             flags |-> {"OK"},
             buckets |-> << >>,
             ttl |-> IF unparsed.ttl = None THEN None ELSE unparsed.ttl[1],
             signatureKey |-> None]
      flagNames == IF unparsed.flags = None THEN << >> ELSE unparsed.flags[1]
  IN  ParseArguments([st EXCEPT !.flags = OrFlags(st.flags, Split(flagNames))],
                     unparsed.arguments)

\* a decoder that only rejects a message without ttl (ttl === undefined)
parseSettingsZeroTtlOk(unparsed) ==
  IF unparsed.ttl = None THEN None
  ELSE parseSettingsNoTtlCheck(unparsed)

parseSettings(unparsed) ==
  IF unparsed.ttl = None \/ unparsed.ttl = Some(0) THEN None
  ELSE LET st == [sampleRate |-> IF unparsed.value = None THEN 0 ELSE unparsed.value[1],
                 flags |-> {"OK"},
                 buckets |-> << >>,
                 ttl |-> unparsed.ttl[1],
                 signatureKey |-> None]
           flagNames == IF unparsed.flags = None THEN << >> ELSE unparsed.flags[1]
       IN  ParseArguments([st EXCEPT !.flags = OrFlags(st.flags, Split(flagNames))],
                          unparsed.arguments)

(***************************************************************************)
(* CoreSampler (core.ts, kept as src/unnamed/part_001): the local          *)
(* settings of a sampling request.                                         *)
(* A matcher is the set of the identifiers it accepts.                     *)
(***************************************************************************)
ALWAYS == "ALWAYS"
NEVER == "NEVER"

\* SpanKind[spanKind]: the name of the enum member
SpanKind ==
  [k \in 0..4 |->
     CASE k = 0 -> "INTERNAL" [] k = 1 -> "SERVER" [] k = 2 -> "CLIENT"
       [] k = 3 -> "PRODUCER" [] k = 4 -> "CONSUMER"]

\* a constructor that takes the trigger mode from the tracing mode
CoreSamplerTriggerFromTracing(config) ==
  [tracingMode |-> IF config.tracingMode # None
                     THEN Some(IF config.tracingMode[1] THEN ALWAYS ELSE NEVER)
                     ELSE None,
   triggerMode |-> config.tracingMode # None /\ config.tracingMode[1],
   transactionSettings |-> config.transactionSettings]

\* the constructor (core.ts 44-54)
CoreSampler(config) ==
  [tracingMode |-> IF config.tracingMode # None
                     THEN Some(IF config.tracingMode[1] THEN ALWAYS ELSE NEVER)
                     ELSE None,
   triggerMode |-> config.triggerTraceEnabled,
   transactionSettings |-> config.transactionSettings]

\* a test that takes every defined text for true
Defined(text) == text # None

\* `scheme && address && path`: defined and not the empty string
Truthy(text) == text # None /\ text[1] # ""

\* the identifier of the request (core.ts 72-83)
Identifier(spanName, spanKind, attributes) ==
  LET kind == SpanKind[spanKind]
      scheme == attributes.scheme
      host == attributes.host
      path == attributes.target
  IN  IF Truthy(scheme) /\ Truthy(host) /\ Truthy(path)
      THEN scheme[1] \o "://" \o host[1] \o path[1]
      ELSE kind \o ":" \o spanName

\* The loop below works on [settings, evaluated]: the LocalSettings being
\* built and the identifiers handed to matchers so far, in call order.

\* a loop over the transaction settings that does not stop at a match
RECURSIVE MatchTransactionSettingsNoBreak(_, _, _)
MatchTransactionSettingsNoBreak(tr, entries, identifier) ==
  IF entries = << >> THEN tr
  ELSE LET called == [tr EXCEPT !.evaluated = Append(@, identifier)]
       IN  MatchTransactionSettingsNoBreak(
             IF identifier \in Head(entries).matcher
             THEN [called EXCEPT !.settings.tracingMode =
                     Some(IF Head(entries).tracing THEN ALWAYS ELSE NEVER)]
             ELSE called,
             Tail(entries), identifier)

\* the loop over the transaction settings (core.ts 85-90)
RECURSIVE MatchTransactionSettings(_, _, _)
MatchTransactionSettings(tr, entries, identifier) ==
  IF entries = << >> THEN tr
  ELSE LET called == [tr EXCEPT !.evaluated = Append(@, identifier)]
       IN  IF identifier \in Head(entries).matcher
           THEN [called EXCEPT !.settings.tracingMode =
                   Some(IF Head(entries).tracing THEN ALWAYS ELSE NEVER)]
           ELSE MatchTransactionSettings(called, Tail(entries), identifier)

\* localSettings (core.ts 56-93): the settings it returns, and the
\* identifiers it handed to matchers
localSettings(sampler, spanName, spanKind, attributes) ==
  LET tr == [settings |-> [tracingMode |-> sampler.tracingMode,
                           triggerMode |-> sampler.triggerMode],
             evaluated |-> << >>]
  IN  IF sampler.transactionSettings = None THEN tr
      ELSE MatchTransactionSettings(tr, sampler.transactionSettings[1],
                                    Identifier(spanName, spanKind, attributes))

(***************************************************************************)
(* GrpcSampler (grpc.ts 59-240).  The handlers are operators on the part   *)
(* of the sampler a handler can touch,                                     *)
(*   [lastWarningMessage, logged, raised, ready, settings, updates,        *)
(*    timers, unhandled],                                                  *)
(* and the actions below store their result.                               *)
(***************************************************************************)
OK == "OK"
TRY_LATER == "TRY_LATER"
LIMIT_EXCEEDED == "LIMIT_EXCEEDED"

INVALID_SETTINGS == "Retrieved sampling settings are invalid"
FAILED_SETTINGS == "Failed to retrieve sampling settings"

\* the constructor up to the choice of the client (grpc.ts 76-131)
\* a constructor whose `new URL` is not inside a try block
ConstructorNoCatch(c) ==
  LET url == ParseURL(NormalizeCollector(c))
  IN  IF url # None
      THEN [address |-> url, client |-> "probe", dns |-> "pending", threw |-> FALSE]
      ELSE [address |-> InvalidAddress, client |-> "poisoned", dns |-> "unused",
            threw |-> TRUE]

Constructor(c) ==
  LET url == ParseURL(NormalizeCollector(c))
  IN  IF url # None
      THEN [address |-> url, client |-> "probe", dns |-> "pending", threw |-> FALSE]
      ELSE [address |-> InvalidAddress, client |-> "poisoned", dns |-> "unused",
            threw |-> FALSE]

\* #warn that forgets the message it logged
WarnNoRemember(H, message) ==
  IF message = H.lastWarningMessage
  THEN [H EXCEPT !.raised = Append(@, [message |-> message, emitted |-> FALSE])]
  ELSE [H EXCEPT !.logged = message,
                 !.raised = Append(@, [message |-> message, emitted |-> TRUE])]

\* #warn (grpc.ts 145-152); logger.warn is the history `logged`
Warn(H, message) ==
  IF message = H.lastWarningMessage
  THEN [H EXCEPT !.raised = Append(@, [message |-> message, emitted |-> FALSE])]
  ELSE [H EXCEPT !.logged = message,
                 !.lastWarningMessage = message,
                 !.raised = Append(@, [message |-> message, emitted |-> TRUE])]

\* a resolve function that was never captured
ReadyLost(H) == H

\* this.#ready(): the resolve function of the `ready` promise
Ready(H) == [H EXCEPT !.ready = IF @ = "pending" THEN "resolved" ELSE @]

\* OboeSampler.updateSettings: the Settings are replaced as a whole
UpdateSettings(H, parsed) ==
  [H EXCEPT !.settings = parsed, !.updates = Sat(@)]

\* setTimeout(() => this.#loop(retryTimeout), delay)
SetTimeout(H, delay, retryTimeout) ==
  [H EXCEPT !.timers = Append(@, [delay |-> delay, retryTimeout |-> retryTimeout])]

\* retry without the cap of RETRY_MAX_TIMEOUT
RetryUncapped(H, retryTimeout) ==
  SetTimeout(Ready(H), retryTimeout, TimesMultiplier(retryTimeout))

\* retry that does not signal readiness
RetryNoReady(H, retryTimeout) ==
  SetTimeout(H, retryTimeout,
             MinT(TimesMultiplier(retryTimeout), Ms(RETRY_MAX_TIMEOUT)))

\* retry that arms its timer twice
RetryTwice(H, retryTimeout) ==
  LET nextRetryTimeout == MinT(TimesMultiplier(retryTimeout), Ms(RETRY_MAX_TIMEOUT))
  IN  SetTimeout(SetTimeout(Ready(H), retryTimeout, nextRetryTimeout),
                 retryTimeout, nextRetryTimeout)

\* retry that doubles the timeout
RetryDoubles(H, retryTimeout) ==
  SetTimeout(Ready(H), retryTimeout,
             MinT([ms |-> 2 * retryTimeout.ms + (2 * retryTimeout.frac) \div FracUnits,
                   frac |-> (2 * retryTimeout.frac) % FracUnits],
                  Ms(RETRY_MAX_TIMEOUT)))

\* retry that arms no timer
RetryNoTimer(H, retryTimeout) == Ready(H)

\* retry (grpc.ts 155-166)
Retry(H, retryTimeout) ==
  LET nextRetryTimeout == MinT(TimesMultiplier(retryTimeout), Ms(RETRY_MAX_TIMEOUT))
  IN  SetTimeout(Ready(H), retryTimeout, nextRetryTimeout)

\* find that takes the first entry whatever its type
FindAny(entries) == IF entries = << >> THEN None ELSE Head(entries)

\* a find that takes the last entry of the type
RECURSIVE FindLast(_)
FindLast(entries) ==
  IF entries = << >> THEN None
  ELSE IF entries[Len(entries)].type = DEFAULT_SAMPLE_RATE THEN entries[Len(entries)]
  ELSE FindLast(SubSeq(entries, 1, Len(entries) - 1))

\* response.settings?.find(({ type }) => type === DEFAULT_SAMPLE_RATE)
RECURSIVE Find(_)
Find(entries) ==
  IF entries = << >> THEN None
  ELSE IF Head(entries).type = DEFAULT_SAMPLE_RATE THEN Head(entries)
  ELSE Find(Tail(entries))

\* a maximum that is its second argument
MaxIsSecond(a, b) == b

Max(a, b) == IF a >= b THEN a ELSE b

\* REQUEST_TIMEOUT * MULTIPLIER
RefreshMargin == (REQUEST_TIMEOUT * MULTIPLIER_NUM) \div MULTIPLIER_DEN

\* a .then handler that leaves the update of the settings for later
LoopThenDefersUpdate(H, retryTimeout, response) ==
  IF response = None THEN Retry(H, retryTimeout)
  ELSE
    LET H1 == IF response.warning # "" THEN Warn(H, response.warning) ELSE H
        unparsed == IF response.settings = None THEN None
                    ELSE Find(response.settings[1])
        parsed == IF unparsed = None THEN None ELSE parseSettings(unparsed)
    IN  IF response.result # OK THEN Retry(H1, retryTimeout)
        ELSE IF parsed = None
        THEN Retry(Warn(H1, INVALID_SETTINGS), retryTimeout)
        ELSE SetTimeout(Ready(H1),
                        Ms(Max(0, parsed.ttl * 1000 - RefreshMargin)),
                        Ms(RETRY_MIN_TIMEOUT))

\* the .then handler of #loop (grpc.ts 178-229)
LoopThen(H, retryTimeout, response) ==
  IF response = None THEN Retry(H, retryTimeout)
  ELSE
    LET H1 == IF response.warning # "" THEN Warn(H, response.warning) ELSE H
    IN  IF response.result = TRY_LATER \/ response.result = LIMIT_EXCEEDED
        THEN Retry(H1, retryTimeout)
        ELSE IF response.result # OK
        THEN Retry(H1, retryTimeout)
        ELSE
          LET unparsed == IF response.settings = None THEN None
                          ELSE Find(response.settings[1])
              parsed == IF unparsed = None THEN None ELSE parseSettings(unparsed)
          IN  IF parsed = None
              THEN Retry(Warn(H1, INVALID_SETTINGS), retryTimeout)
              ELSE
                LET nextRequestTimeout == parsed.ttl * 1000 - RefreshMargin
                IN  SetTimeout(Ready(UpdateSettings(H1, parsed)),
                               Ms(Max(0, nextRequestTimeout)),
                               Ms(RETRY_MIN_TIMEOUT))

\* a .catch handler that logs and throws the error on
LoopCatchRethrows(H, retryTimeout, error) ==
  [Warn(H, FAILED_SETTINGS) EXCEPT !.unhandled = TRUE]

\* the .catch handler of #loop (grpc.ts 230-238)
LoopCatch(H, retryTimeout, error) ==
  LET message == IF error.isError
                   THEN FAILED_SETTINGS \o " (" \o error.message \o ")"
                   ELSE FAILED_SETTINGS
  IN  Retry(Warn(H, message), retryTimeout)

\* handlers that take every response that is not OK for a failure
LoopSettledSoftIsFailure(H, retryTimeout, settled) ==
  IF /\ settled.kind = "resolved"
     /\ settled.response # None
     /\ settled.response.result = OK
  THEN LoopThen(H, retryTimeout, settled.response)
  ELSE LoopCatch(H, retryTimeout, [isError |-> FALSE, message |-> ""])

\* getSettings(...).then(...).catch(...) once getSettings has settled
LoopSettled(H, retryTimeout, settled) ==
  IF settled.kind = "resolved"
  THEN LoopThen(H, retryTimeout, settled.response)
  ELSE LoopCatch(H, retryTimeout, settled.error)

\* #loop up to the getSettings call (grpc.ts 168-177): the call it issues.
\* `via` is the client the call was made on, `stage` what the call waits for.
Loop(retryTimeout) ==
  [seq |-> Sat(issued),
   retryTimeout |-> retryTimeout,
   via |-> client,
   stage |-> CASE client = "probe" -> "dns"
               [] client = "real" -> "rpc"
               [] client = "poisoned" -> "rejected"]

\* the rejection the caller of getSettings sees (grpc.ts 110-117, 124-129)
GetSettingsError(call, cause) ==
  IF call.via \in {"probe", "poisoned"} THEN InvalidCollector(collector) ELSE cause

(***************************************************************************)
(* Inputs: collector addresses, collector responses, transport errors.     *)
(***************************************************************************)
Collectors ==
  { <<"collector.example.com">>,
    <<"collector.example.com", ":", "8080">>,
    <<"https", "://", "collector.example.com", ":", "8080">>,
    <<"not a collector">> }

Payload(len, double) == [len |-> len, double |-> double]

Entry60 ==
  [type |-> DEFAULT_SAMPLE_RATE, ttl |-> Some(60), value |-> Some(1000000),
   flags |-> Some(<<"SAMPLE_START", ",", "TRIGGER_TRACE">>),
   arguments |-> << [key |-> BUCKET_CAPACITY, value |-> Payload(8, 20)],
                    [key |-> BUCKET_RATE, value |-> Payload(8, 5)] >>]

Entry10 ==
  [type |-> DEFAULT_SAMPLE_RATE, ttl |-> Some(10), value |-> None,
   flags |-> Some(<<"OVERRIDE", ",", "UNKNOWN">>),
   arguments |-> << [key |-> TRIGGER_STRICT_BUCKET_RATE, value |-> Payload(8, 1)],
                    [key |-> BUCKET_RATE, value |-> Payload(4, 7)],
                    [key |-> SIGNATURE_KEY, value |-> Payload(3, 0)] >>]

EntryNoTtl == [Entry60 EXCEPT !.ttl = None]
EntryZeroTtl == [Entry10 EXCEPT !.ttl = Some(0)]
EntryOther == [Entry60 EXCEPT !.type = "OTHER"]

SettingsLists ==
  { None, Some(<<Entry60>>), Some(<<EntryOther, Entry10, Entry60>>),
    Some(<<EntryNoTtl, Entry60>>), Some(<<EntryZeroTtl>>), Some(<<EntryOther>>) }

Warnings == {"", "collector warning", INVALID_SETTINGS}

Results == {OK, TRY_LATER, LIMIT_EXCEEDED, "INVALID_API_KEY"}

\* a response that is not OK is drawn without settings: they are not read
Responses ==
  {None}
    \cup [result : Results \ {OK}, warning : Warnings, settings : {None}]
    \cup [result : {OK}, warning : Warnings, settings : SettingsLists]

TransportErrors ==
  { [isError |-> TRUE, message |-> "4 DEADLINE_EXCEEDED"],
    [isError |-> FALSE, message |-> ""] }

(***************************************************************************)
(* Inputs of the handlers of #loop on their own: one settled getSettings   *)
(* call, the retry timeout of its attempt and the warning logged last.     *)
(***************************************************************************)
\* the sequences over S of length n or less
SeqsUpTo(S, n) == UNION { [1..k -> S] : k \in 0..n }

\* the most entries of response.settings
MaxEntries == 3

EntryPool == {Entry60, Entry10, EntryNoTtl, EntryZeroTtl, EntryOther}

HandlerResponses ==
  {None}
    \cup [result : Results \ {OK}, warning : Warnings,
          settings : {None, Some(<<Entry60>>)}]
    \cup [result : {OK}, warning : Warnings,
          settings : {None} \cup {Some(l) : l \in SeqsUpTo(EntryPool, MaxEntries)}]

Settlements ==
  [kind : {"resolved"}, response : HandlerResponses]
    \cup [kind : {"rejected"},
          error : TransportErrors \cup {InvalidCollector(<<"collector.example.com">>)}]

(***************************************************************************)
(* Inputs of parseSettings on its own: messages with every combination of  *)
(* ttl and value, with the flag lists or with the argument maps below.     *)
(***************************************************************************)
\* the longest list of flag names
MaxFlagNames == 3

\* the most entries of an arguments map
MaxArguments == 2

FlagNames == DOMAIN FLAGS_NAMES \cup {"UNKNOWN", "constructor"}

\* the text of a list of names: the names with "," between them
RECURSIVE Join(_)
Join(names) ==
  IF names = << >> THEN << >>
  ELSE IF Len(names) = 1 THEN <<Head(names)>>
  ELSE <<Head(names), ",">> \o Join(Tail(names))

FlagLists == SeqsUpTo(FlagNames, MaxFlagNames)

Payloads == {Payload(4, 7), Payload(8, 20), Payload(8, 5), Payload(16, 9)}

ArgumentKeys ==
  {BUCKET_CAPACITY, BUCKET_RATE, TRIGGER_RELAXED_BUCKET_CAPACITY,
   TRIGGER_RELAXED_BUCKET_RATE, TRIGGER_STRICT_BUCKET_CAPACITY,
   TRIGGER_STRICT_BUCKET_RATE, SIGNATURE_KEY, "Other"}

\* the entries of an object: no key twice
ArgumentMaps ==
  { a \in SeqsUpTo([key : ArgumentKeys, value : Payloads], MaxArguments) :
      \A i, j \in 1..Len(a) : i # j => a[i].key # a[j].key }

Ttls == {None, Some(0), Some(60)}

Values == {None, Some(1000000)}

Messages ==
  [type : {DEFAULT_SAMPLE_RATE}, ttl : Ttls, value : Values,
   flags : {None} \cup {Some(Join(l)) : l \in FlagLists}, arguments : {<< >>}]
    \cup [type : {DEFAULT_SAMPLE_RATE}, ttl : Ttls, value : Values,
          flags : {None, Some(Join(<<"SAMPLE_START", "TRIGGER_TRACE">>))},
          arguments : ArgumentMaps]

(***************************************************************************)
(* Inputs of localSettings on its own: a configuration and a request.      *)
(***************************************************************************)
\* the longest list of transaction settings
MaxTransactionSettings == 2

Health == "http://example.com/health"

Matchers ==
  { {}, {Health}, {"SERVER:GET /users"},
    {Health, "SERVER:GET /users", "CLIENT:GET /users"} }

Configurations ==
  [tracingMode : {None, Some(TRUE), Some(FALSE)},
   triggerTraceEnabled : BOOLEAN,
   transactionSettings :
     {None} \cup {Some(l) : l \in SeqsUpTo([tracing : BOOLEAN, matcher : Matchers],
                                            MaxTransactionSettings)}]

Requests ==
  [spanName : {"GET /users"},
   spanKind : {1, 2},
   attributes : [scheme : {None, Some(""), Some("http")},
                 host : {None, Some("example.com")},
                 target : {None, Some("/health")},
                 method : {None, Some("GET")}]]

(***************************************************************************)
(* What an attempt's outcome is called in the properties.                  *)
(***************************************************************************)
Decode(response) ==
  IF response.settings = None THEN None
  ELSE LET first == SelectSeq(response.settings[1],
                              LAMBDA e : e.type = DEFAULT_SAMPLE_RATE)
       IN  IF first = << >> THEN None ELSE parseSettings(first[1])

Outcome(settled) ==
  IF settled.kind = "rejected" THEN "rejected"
  ELSE IF settled.response = None THEN "empty"
  ELSE IF settled.response.result # OK THEN "soft"
  ELSE IF Decode(settled.response) = None THEN "decode"
  ELSE "success"

ResponseWarning(settled) ==
  IF settled.kind = "resolved" /\ settled.response # None
  THEN settled.response.warning ELSE ""

RECURSIVE Emitted(_, _)
Emitted(rs, message) ==
  IF rs = << >> THEN 0
  ELSE (IF Head(rs).message = message /\ Head(rs).emitted THEN 1 ELSE 0)
         + Emitted(Tail(rs), message)

NoRun == [len |-> 0, emitted |-> 0, warned |-> FALSE]

Remove(seq, i) == SubSeq(seq, 1, i - 1) \o SubSeq(seq, i + 1, Len(seq))

(***************************************************************************)
(* The state after construction (grpc.ts 71-138).                          *)
(***************************************************************************)
SamplerInit(c) ==
  LET k == Constructor(c)
  IN  /\ collector = c
      /\ address = k.address
      /\ dns = k.dns
      /\ client = k.client
      /\ unhandled = k.threw
      /\ immediate = TRUE
      /\ calls = << >>
      /\ timers = << >>
      /\ lastWarningMessage = ""
      /\ ready = "pending"
      /\ settings = None
      /\ logged = ""
      /\ raised = << >>
      /\ issued = 0
      /\ completed = 0
      /\ updates = 0
      /\ last = None
      /\ prev = None
      /\ latestOk = [seq |-> 0, value |-> None]
      /\ invalidRun = NoRun
      /\ streak = 0
      /\ shutdown = FALSE

Init ==
  \E c \in Collectors :
    /\ SamplerInit(c)
    /\ arg = None
    /\ result = None

\* the sampler calls #loop(retryTimeout)
Issue(retryTimeout) ==
  /\ calls' = Append(calls, Loop(retryTimeout))
  /\ issued' = Sat(issued)

\* call i settles and the handlers of #loop run
Complete(i, settled) ==
  LET call == calls[i]
      H0 == [lastWarningMessage |-> lastWarningMessage, logged |-> logged,
             raised |-> << >>, ready |-> ready, settings |-> settings,
             updates |-> updates, timers |-> timers, unhandled |-> unhandled]
  IN  \E H1 \in {LoopSettled(H0, call.retryTimeout, settled)},
         outcome \in {Outcome(settled)} :
        /\ calls' = Remove(calls, i)
        /\ timers' = H1.timers
        /\ lastWarningMessage' = H1.lastWarningMessage
        /\ ready' = H1.ready
        /\ settings' = H1.settings
        /\ unhandled' = H1.unhandled
        /\ logged' = H1.logged
        /\ raised' = H1.raised
        /\ updates' = H1.updates
        /\ completed' = Sat(completed)
        /\ last' = [outcome |-> outcome,
                    armed |-> SubSeq(H1.timers, Len(timers) + 1, Len(H1.timers))]
        /\ prev' = IF last = None THEN None
                   ELSE [success |-> last.outcome = "success", armed |-> last.armed]
        /\ latestOk' = IF outcome = "success" /\ call.seq >= latestOk.seq
                       THEN [seq |-> call.seq, value |-> Decode(settled.response)]
                       ELSE latestOk
        /\ invalidRun' =
             IF outcome = "decode"
             THEN [len |-> Sat(invalidRun.len),
                   emitted |-> IF Emitted(H1.raised, INVALID_SETTINGS) > 0
                               THEN Sat(invalidRun.emitted)
                               ELSE invalidRun.emitted,
                   warned |-> invalidRun.warned \/ ResponseWarning(settled) # ""]
             ELSE NoRun
        /\ streak' = IF outcome = "success" THEN 0 ELSE SatStreak(streak)
        /\ UNCHANGED << arg, result, shutdown, collector, address, dns, client,
                        immediate, issued >>

(***************************************************************************)
(* Actions.                                                                *)
(***************************************************************************)
\* the setImmediate callback of the constructor (grpc.ts 135-137)
RunImmediate ==
  /\ immediate
  /\ immediate' = FALSE
  /\ Issue(Ms(RETRY_MIN_TIMEOUT))
  /\ UNCHANGED << arg, result, shutdown, streak, collector, address, dns, client, timers, lastWarningMessage,
                  ready, settings, unhandled, logged, raised, completed,
                  updates, last, prev, latestOk, invalidRun >>

\* a timer armed with setInterval: it fires and stays armed
TimerFiresAgain ==
  \E i \in 1..Len(timers) :
    /\ Len(calls) < MaxCount
    /\ Issue(timers[i].retryTimeout)
    /\ UNCHANGED << arg, result, shutdown, streak, collector, address, dns, client, immediate, timers,
                    lastWarningMessage, ready, settings, unhandled, logged,
                    raised, completed, updates, last, prev, latestOk,
                    invalidRun >>

\* a retry or refresh timer fires (grpc.ts 163-165, 223-228)
TimerFires ==
  \E i \in 1..Len(timers) :
    /\ timers' = Remove(timers, i)
    /\ Issue(timers[i].retryTimeout)
    /\ UNCHANGED << arg, result, shutdown, streak, collector, address, dns, client, immediate,
                    lastWarningMessage, ready, settings, unhandled, logged,
                    raised, completed, updates, last, prev, latestOk,
                    invalidRun >>

\* Promise.any([resolve4, resolve6]) settles (grpc.ts 90-93)
DnsSettles ==
  /\ dns = "pending"
  /\ dns' \in {"resolved", "rejected"}
  /\ UNCHANGED << arg, result, shutdown, streak, collector, address, client, immediate, calls, timers,
                  lastWarningMessage, ready, settings, unhandled, logged,
                  raised, issued, completed, updates, last, prev, latestOk,
                  invalidRun >>

\* a temporary client that replaces itself without waiting for the probe
ProbeThenUnresolved ==
  \E i \in 1..Len(calls) :
    /\ calls[i].stage = "dns"
    /\ client' = "real"
    /\ calls' = [calls EXCEPT ![i].stage = "rpc"]
    /\ UNCHANGED << arg, result, shutdown, streak, collector, address, dns,
                    immediate, timers, lastWarningMessage, ready, settings,
                    unhandled, logged, raised, issued, completed, updates,
                    last, prev, latestOk, invalidRun >>

\* the probe succeeded: the real client replaces the temporary one and the
\* request goes out through it (grpc.ts 100-109)
ProbeThen ==
  \E i \in 1..Len(calls) :
    /\ calls[i].stage = "dns"
    /\ dns = "resolved"
    /\ client' = "real"
    /\ calls' = [calls EXCEPT ![i].stage = "rpc"]
    /\ UNCHANGED << arg, result, shutdown, streak, collector, address, dns, immediate, timers,
                    lastWarningMessage, ready, settings, unhandled, logged,
                    raised, issued, completed, updates, last, prev, latestOk,
                    invalidRun >>

\* the probe failed (grpc.ts 110-117)
ProbeCatch ==
  \E i \in 1..Len(calls) :
    /\ calls[i].stage = "dns"
    /\ dns = "rejected"
    /\ Complete(i, [kind |-> "rejected",
                    error |-> GetSettingsError(calls[i], None)])

\* the client of a malformed collector address rejects (grpc.ts 123-130)
PoisonedRejects ==
  \E i \in 1..Len(calls) :
    /\ calls[i].stage = "rejected"
    /\ Complete(i, [kind |-> "rejected",
                    error |-> GetSettingsError(calls[i], None)])

\* the collector answers (grpc.ts 278-281, resolve)
RpcResolves ==
  \E i \in 1..Len(calls), response \in Responses :
    /\ calls[i].stage = "rpc"
    /\ Complete(i, [kind |-> "resolved", response |-> response])

\* the transport fails (grpc.ts 278-281, reject)
RpcRejects ==
  \E i \in 1..Len(calls), cause \in TransportErrors :
    /\ calls[i].stage = "rpc"
    /\ Complete(i, [kind |-> "rejected",
                    error |-> GetSettingsError(calls[i], cause)])

Next ==
  \/ RunImmediate
  \/ TimerFires
  \/ DnsSettles
  \/ ProbeThen
  \/ ProbeCatch
  \/ PoisonedRejects
  \/ RpcResolves
  \/ RpcRejects

Spec == Init /\ [][Next]_vars

\* getSettings calls settle and the event loop runs the callbacks it holds
FairSpec ==
  /\ Spec
  /\ WF_vars(RunImmediate)
  /\ WF_vars(TimerFires)
  /\ WF_vars(DnsSettles)
  /\ WF_vars(ProbeThen)
  /\ WF_vars(ProbeCatch)
  /\ WF_vars(PoisonedRejects)
  /\ WF_vars(RpcResolves \/ RpcRejects)

\* parseSettings applied to one message
CodecInit ==
  /\ SamplerInit(<<"collector.example.com">>)
  /\ arg \in Messages
  /\ result = None

ParseSettings ==
  /\ result = None
  /\ result' = Some(parseSettings(arg))
  /\ UNCHANGED << arg, shutdown, streak, collector, address, dns, client,
                  immediate, calls, timers, lastWarningMessage, ready,
                  settings, unhandled, logged, raised, issued, completed,
                  updates, last, prev, latestOk, invalidRun >>

CodecNext == ParseSettings

CodecSpec == CodecInit /\ [][CodecNext]_vars

\* the .then handler of #loop applied to one response that carries one
\* decodable entry with a ttl of 1..MaxTtl seconds
MaxTtl == 120

RefreshInit ==
  /\ SamplerInit(<<"collector.example.com">>)
  /\ arg \in [entry : {[Entry60 EXCEPT !.ttl = Some(t)] : t \in 1..MaxTtl},
               retryTimeout : {Ms(RETRY_MIN_TIMEOUT), Ms(RETRY_MAX_TIMEOUT)}]
  /\ result = None

Refresh ==
  /\ result = None
  /\ result' =
       Some(LoopThen([lastWarningMessage |-> lastWarningMessage,
                      logged |-> logged, raised |-> << >>, ready |-> ready,
                      settings |-> settings, updates |-> updates,
                      timers |-> timers, unhandled |-> unhandled],
                     arg.retryTimeout,
                     [result |-> OK, warning |-> "",
                      settings |-> Some(<<arg.entry>>)]))
  /\ UNCHANGED << arg, shutdown, streak, collector, address, dns, client,
                  immediate, calls, timers, lastWarningMessage, ready,
                  settings, unhandled, logged, raised, issued, completed,
                  updates, last, prev, latestOk, invalidRun >>

RefreshNext == Refresh

RefreshSpec == RefreshInit /\ [][RefreshNext]_vars

\* the handlers of #loop applied to one settled call
HandlerInit ==
  /\ SamplerInit(<<"collector.example.com">>)
  /\ arg \in [settled : Settlements,
               retryTimeout : {Ms(RETRY_MIN_TIMEOUT), Ms(RETRY_MAX_TIMEOUT)},
               before : Warnings \cup {FAILED_SETTINGS}]
  /\ result = None

Settle ==
  /\ result = None
  /\ result' =
       Some(LoopSettled([lastWarningMessage |-> arg.before,
                         logged |-> arg.before, raised |-> << >>,
                         ready |-> ready, settings |-> settings,
                         updates |-> updates, timers |-> timers,
                         unhandled |-> unhandled],
                        arg.retryTimeout, arg.settled))
  /\ UNCHANGED << arg, shutdown, streak, collector, address, dns, client,
                  immediate, calls, timers, lastWarningMessage, ready,
                  settings, unhandled, logged, raised, issued, completed,
                  updates, last, prev, latestOk, invalidRun >>

HandlerNext == Settle

HandlerSpec == HandlerInit /\ [][HandlerNext]_vars

\* localSettings applied to one request of one configuration
ResolverInit ==
  /\ SamplerInit(<<"collector.example.com">>)
  /\ arg \in [config : Configurations, request : Requests]
  /\ result = None

LocalSettings ==
  /\ result = None
  /\ \E r \in {localSettings(CoreSampler(arg.config), arg.request.spanName,
                              arg.request.spanKind, arg.request.attributes)} :
       result' = <<r.settings, r.evaluated>>
  /\ UNCHANGED << arg, shutdown, streak, collector, address, dns, client,
                  immediate, calls, timers, lastWarningMessage, ready,
                  settings, unhandled, logged, raised, issued, completed,
                  updates, last, prev, latestOk, invalidRun >>

ResolverNext == LocalSettings

ResolverSpec == ResolverInit /\ [][ResolverNext]_vars

\* The agent shuts down.  Nothing of the sampler observes it: #loop passes
\* getSettings no abort signal (grpc.ts 169-177), keeps no handle of its
\* timers (grpc.ts 163-165, 223-228), and the class has no shutdown method.
Shutdown ==
  /\ ~shutdown
  /\ shutdown' = TRUE
  /\ UNCHANGED << arg, result, streak, collector, address, dns, client,
                  immediate, calls, timers, lastWarningMessage, ready,
                  settings, unhandled, logged, raised, issued, completed,
                  updates, last, prev, latestOk, invalidRun >>

ShutdownNext ==
  \/ Next
  \/ Shutdown

\* the sampler in an agent that may shut down at any moment
ShutdownSpec == Init /\ [][ShutdownNext]_vars

(***************************************************************************)
(* Properties.                                                             *)
(***************************************************************************)
Failed(attempt) == attempt # None /\ attempt.outcome # "success"

\* C1: the sync loop never runs two fetch attempts concurrently: in-flight
\* getSettings calls plus pending loop timers are at most one, and each
\* completed attempt schedules exactly one next attempt.
C1_OneAttemptAtATime ==
  /\ Len(calls) + Len(timers) <= 1
  /\ last # None => Len(last.armed) = 1

C1_Witness ==
  /\ last # None /\ last.outcome = "success"
  /\ prev # None /\ ~prev.success
  /\ Len(timers) = 1 /\ Len(calls) = 0

\* C2: within a streak of failed attempts the retry delay never decreases
\* and never exceeds 600000 ms; the first failed attempt after a success is
\* retried after exactly 500 ms.
C2_Backoff ==
  Failed(last) =>
    /\ Len(last.armed) = 1
    /\ LeT(last.armed[1].delay, Ms(600000))
    /\ (prev # None /\ ~prev.success) =>
         (Len(prev.armed) = 1 /\ LeT(prev.armed[1].delay, last.armed[1].delay))
    /\ (prev # None /\ prev.success) => last.armed[1].delay = Ms(500)

C2_Witness ==
  /\ Failed(last) /\ last.armed[1].delay = Ms(600000)
  /\ prev # None /\ ~prev.success /\ prev.armed[1].delay # Ms(600000)

\* C3: `ready` is resolved exactly from the moment the first attempt's
\* outcome is known, whatever that outcome is, and no later attempt changes it.
C3_ReadyOnce ==
  /\ [](ready = "resolved" <=> completed >= 1)
  /\ [][ready = "resolved" => ready' = "resolved"]_vars

C3_Witness ==
  /\ ready = "resolved" /\ completed >= 2
  /\ prev # None /\ ~prev.success
  /\ last.outcome = "success"

\* C4: when the getSettings calls settle, `ready` is eventually resolved,
\* also for a collector that is unreachable, unresolvable or malformed.
C4_ReadyEventually == <>(ready = "resolved")

C4_Witness ==
  /\ ready = "resolved"
  /\ updates = 0
  /\ client # "real"
  /\ Failed(last)

\* C5: in every state where `ready` has resolved, updateSettings has been
\* called at least once.
C5_ReadyMeansSettings == ready = "resolved" => updates >= 1

\* C6: the published Settings change only in an attempt whose response is OK
\* and holds a DEFAULT_SAMPLE_RATE entry that decodes; every other outcome
\* leaves them as they were, and before the first success none is published.
C6_OnlySuccessPublishes ==
  /\ [][settings' # settings =>
          (Len(calls') < Len(calls) /\ last'.outcome = "success")]_vars
  /\ [](latestOk.value = None => settings = None)

C6_Witness ==
  /\ settings # None
  /\ Failed(last) /\ last.outcome = "decode"
  /\ prev # None /\ ~prev.success

\* C7: the published Settings equal, as a whole value, the decode of the
\* most recent successful response.
C7_LatestWins == settings = latestOk.value

C7_Witness ==
  /\ updates >= 2
  /\ settings = parseSettings(Entry10)
  /\ Failed(last)

\* C8: every fetch-path error is absorbed in the sync loop: it arms a retry
\* and no exception or rejection leaves the constructor or the loop.
C8_ErrorsAbsorbed ==
  /\ ~unhandled
  /\ Failed(last) => (Len(last.armed) = 1 /\ Len(calls) + Len(timers) >= 1)

C8_Witness ==
  /\ Failed(last) /\ last.outcome = "rejected"
  /\ client = "poisoned"
  /\ Len(timers) = 1

\* whether each #warn call of rs was logged exactly when its text differs
\* from the text logged before it
RECURSIVE DedupOk(_, _)
DedupOk(before, rs) ==
  \/ rs = << >>
  \/ /\ Head(rs).emitted <=> Head(rs).message # before
     /\ DedupOk(IF Head(rs).emitted THEN Head(rs).message ELSE before, Tail(rs))

\* C9: a warning is handed to the logger if and only if its text differs
\* from the text of the warning logged immediately before it (initially the
\* empty text).
C9_WarnDedup ==
  [][Len(calls') < Len(calls) => DedupOk(logged, raised')]_vars

C9_Witness ==
  /\ Len(raised) = 2
  /\ ~raised[1].emitted
  /\ raised[2].emitted

\* C10 as stated: over a streak of decode failures the warning "Retrieved
\* sampling settings are invalid" is logged exactly once, whatever warning
\* text the responses carry.
C10_InvalidLoggedOnce == invalidRun.len > 0 => invalidRun.emitted = 1

\* C10 as amended: over a streak of decode failures whose responses carry
\* no warning text the warning is logged at most once, and an attempt of the
\* streak whose response carries another warning text logs it again.
C10_InvalidLoggedPerText ==
  /\ (invalidRun.len > 0 /\ ~invalidRun.warned) => invalidRun.emitted <= 1
  /\ (last # None /\ last.outcome = "decode" /\ Len(raised) = 2
        /\ raised[1].message # INVALID_SETTINGS) => raised[2].emitted

C10_Witness ==
  /\ invalidRun.len >= 2
  /\ ~invalidRun.warned
  /\ invalidRun.emitted = 1


\* C11: after agent shutdown no new getSettings call is issued and no new
\* retry or refresh timer is armed.
C11_ShutdownStops ==
  [][shutdown => /\ Len(calls') <= Len(calls)
                 /\ Len(timers') <= Len(timers)]_vars

\* a Settings value with every field populated
IsSettings(st) ==
  /\ DOMAIN st = {"sampleRate", "flags", "buckets", "ttl", "signatureKey"}
  /\ st.sampleRate \in Nat
  /\ st.ttl \in Nat \ {0}
  /\ "OK" \in st.flags
  /\ \A t \in DOMAIN st.buckets :
       /\ DOMAIN st.buckets[t] = {"capacity", "rate"}
       /\ st.buckets[t].capacity \in Nat
       /\ st.buckets[t].rate \in Nat

\* C12: parseSettings returns undefined for every message without a ttl,
\* whatever its value, flags and arguments are; what it returns otherwise is
\* undefined or a fully populated Settings with the ttl and the value of the
\* message.
C12_NoTtlNoSettings ==
  result # None =>
    /\ arg.ttl = None => result[1] = None
    /\ result[1] # None =>
         /\ IsSettings(result[1])
         /\ result[1].ttl = arg.ttl[1]
         /\ result[1].sampleRate = (IF arg.value = None THEN 0 ELSE arg.value[1])

C12_Witness ==
  /\ result # None
  /\ arg.ttl = None
  /\ arg.value # None
  /\ arg.flags # None
  /\ Len(arg.arguments) = 2
  /\ result[1] = None


\* the argument keys that name a bucket field (grpc.ts 318-350)
BucketKeys ==
  {BUCKET_CAPACITY, BUCKET_RATE, TRIGGER_RELAXED_BUCKET_CAPACITY,
   TRIGGER_RELAXED_BUCKET_RATE, TRIGGER_STRICT_BUCKET_CAPACITY,
   TRIGGER_STRICT_BUCKET_RATE}

\* the message without the i-th entry of its arguments
WithoutArgument(unparsed, i) ==
  [unparsed EXCEPT !.arguments = Remove(unparsed.arguments, i)]

\* C13: a bucket payload that is not exactly 8 bytes long, shorter or
\* longer, is omitted: the message decodes as it does without that entry.
C13_NotEightBytesOmitted ==
  (result # None /\ result[1] # None) =>
    \A i \in 1..Len(arg.arguments) :
      (arg.arguments[i].key \in BucketKeys /\ arg.arguments[i].value.len # 8)
        => result[1] = parseSettings(WithoutArgument(arg, i))

\* the names a flag text lists: what stands between its separators
NamesOf(text) == {text[i] : i \in 1..Len(text)} \ {","}

\* C14: the flags of the decoded Settings are OK or-ed with the bits of the
\* recognized names the list holds, however often and in whatever order it
\* holds them; other names add nothing.
C14_FlagsAreUnionOfRecognized ==
  (result # None /\ result[1] # None) =>
    result[1].flags =
      {"OK"} \cup
        (IF arg.flags = None THEN {}
         ELSE {FLAGS_NAMES[n] : n \in NamesOf(arg.flags[1]) \cap DOMAIN FLAGS_NAMES})

C14_Witness ==
  /\ result # None
  /\ arg.flags = Some(<<"TRIGGER_TRACE", ",", "constructor", ",", "TRIGGER_TRACE">>)
  /\ result[1] # None
  /\ result[1].flags = {"OK", "TRIGGERED_TRACE"}


\* the identifier of the request in `arg`
RequestIdentifier ==
  Identifier(arg.request.spanName, arg.request.spanKind, arg.request.attributes)

\* the positions of the transaction settings whose matcher accepts it
Matching ==
  IF arg.config.transactionSettings = None THEN {}
  ELSE {i \in 1..Len(arg.config.transactionSettings[1]) :
          RequestIdentifier \in arg.config.transactionSettings[1][i].matcher}

\* the LocalSettings of the configuration alone
BaseSettings ==
  [tracingMode |-> IF arg.config.tracingMode = None THEN None
                   ELSE IF arg.config.tracingMode[1] THEN Some(ALWAYS)
                   ELSE Some(NEVER),
   triggerMode |-> arg.config.triggerTraceEnabled]

\* C15: the first transaction setting, in list order, whose matcher accepts
\* the identifier decides the tracing mode (ALWAYS if its `tracing` is true,
\* NEVER otherwise), whatever later entries say; without a match the result
\* is the base LocalSettings of the configuration.
C15_FirstMatchWins ==
  result # None =>
    IF Matching = {} THEN result[1] = BaseSettings
    ELSE LET first == CHOOSE i \in Matching : \A j \in Matching : i <= j
             entry == arg.config.transactionSettings[1][first]
         IN  result[1] = [BaseSettings EXCEPT !.tracingMode =
                            Some(IF entry.tracing THEN ALWAYS ELSE NEVER)]

C15_Witness ==
  /\ result # None
  /\ Matching = {1, 2}
  /\ arg.config.transactionSettings[1][1].tracing
  /\ ~arg.config.transactionSettings[1][2].tracing
  /\ arg.config.tracingMode = Some(FALSE)
  /\ result[1].tracingMode = Some(ALWAYS)


\* the port a URL stands for: its own, or the default of its scheme
EffectivePort(url) == IF url.port = "" THEN DefaultPort(url.protocol) ELSE url.port

\* C16: a collector address without scheme and without port is completed to
\* https://<host>:443 and is not treated as invalid.
C16_BareHostDefaults ==
  collector = <<"collector.example.com">> =>
    /\ Text(NormalizeCollector(collector)) = "https://collector.example.com:443"
    /\ address.protocol = "https"
    /\ address.hostname = "collector.example.com"
    /\ EffectivePort(address) = "443"
    /\ client # "poisoned"
    /\ \A i \in 1..Len(calls) : calls[i].stage # "rejected"

C16_Witness ==
  /\ collector = <<"collector.example.com">>
  /\ client = "real"
  /\ last # None /\ last.outcome = "success"
  /\ settings # None

\* a collector address that ends in a port of its own
HasExplicitPort(c) ==
  /\ Len(c) \in {3, 5}
  /\ c[Len(c) - 2] \in HostNames
  /\ c[Len(c) - 1] = ":"
  /\ c[Len(c)] \in Ports
  /\ Len(c) = 5 => (c[1] \in Schemes /\ c[2] = "://")

\* C17: an address of the form host:port or scheme://host:port is accepted
\* as a valid collector and its own port is the one of the request target.
C17_ExplicitPortAccepted ==
  HasExplicitPort(collector) =>
    /\ client # "poisoned"
    /\ address.hostname = collector[Len(collector) - 2]
    /\ EffectivePort(address) = collector[Len(collector)]

\* the text #warn logs for an attempt that failed with the invalid-collector
\* error
InvalidCollectorWarning ==
  FAILED_SETTINGS \o " (Invalid collector (" \o Text(collector) \o "))"

\* C18: with a collector address that does not parse as a URL the
\* constructor does not throw, no name is resolved and no request leaves,
\* and every attempt fails with "Invalid collector (<configured value>)".
C18_MalformedIsPoisoned ==
  ParseURL(NormalizeCollector(collector)) = None =>
    /\ ~unhandled
    /\ client = "poisoned"
    /\ address = InvalidAddress
    /\ dns = "unused"
    /\ \A i \in 1..Len(calls) : calls[i].stage = "rejected"
    /\ last # None => (last.outcome = "rejected" /\ logged = InvalidCollectorWarning)

C18_Witness ==
  /\ collector = <<"not a collector">>
  /\ completed >= 2
  /\ prev # None /\ ~prev.success
  /\ last.outcome = "rejected"
  /\ logged = "Failed to retrieve sampling settings (Invalid collector (not a collector))"

\* C19: the real client is installed only once the name-resolution probe
\* has succeeded; once the probe has failed it stays failed, the temporary
\* client stays in place and every attempt fails with the invalid-collector
\* error.
C19_TwoPhaseClient ==
  [][/\ (client # "real" /\ client' = "real") => dns = "resolved"
     /\ dns = "rejected" =>
          /\ dns' = "rejected"
          /\ client = "probe" /\ client' = "probe"
          /\ \A i \in 1..Len(calls') : calls'[i].stage = "dns"
          /\ last' # None =>
               (last'.outcome = "rejected" /\ logged' = InvalidCollectorWarning)]_vars

C19_Witness ==
  /\ dns = "rejected"
  /\ client = "probe"
  /\ completed >= 2
  /\ prev # None /\ ~prev.success
  /\ last.outcome = "rejected"
  /\ logged = InvalidCollectorWarning

\* 500 * 1.5^(k-1) ms for k = 1..18, as <<whole ms, 2^-18 ms>>; from k = 19
\* on the product exceeds 600000
PowerDelays ==
  << <<500, 0>>, <<750, 0>>, <<1125, 0>>, <<1687, 131072>>, <<2531, 65536>>,
     <<3796, 229376>>, <<5695, 81920>>, <<8542, 253952>>, <<12814, 118784>>,
     <<19221, 178176>>, <<28832, 136192>>, <<43248, 204288>>, <<64873, 44288>>,
     <<97309, 197504>>, <<145964, 165184>>, <<218946, 247776>>,
     <<328420, 109520>>, <<492630, 164280>> >>

\* min(500 * 1.5^(k-1), 600000)
ExpectedDelay(k) ==
  IF k <= Len(PowerDelays)
  THEN [ms |-> PowerDelays[k][1], frac |-> PowerDelays[k][2]]
  ELSE Ms(600000)

\* C20: the retry after the k-th consecutive failed attempt, counted from
\* the last success or from start-up, is armed with a delay of
\* min(500 * 1.5^(k-1), 600000) ms.
C20_KthRetryDelay ==
  Failed(last) =>
    /\ streak >= 1
    /\ Len(last.armed) = 1
    /\ last.armed[1].delay = ExpectedDelay(streak)

C20_Witness ==
  /\ streak = 3
  /\ last # None /\ last.outcome = "soft"
  /\ last.armed[1].delay = Ms(1125)
  /\ prev # None /\ ~prev.success /\ prev.armed[1].delay = Ms(750)
  /\ ready = "resolved"


\* the bucket and the field an argument key names
BucketOf(key) ==
  CASE key \in {"BucketCapacity", "BucketRate"} -> "DEFAULT"
    [] key \in {"TriggerRelaxedBucketCapacity", "TriggerRelaxedBucketRate"} ->
         "TRIGGER_RELAXED"
    [] key \in {"TriggerStrictBucketCapacity", "TriggerStrictBucketRate"} ->
         "TRIGGER_STRICT"

FieldOf(key) ==
  IF key \in {"BucketCapacity", "TriggerRelaxedBucketCapacity",
              "TriggerStrictBucketCapacity"}
  THEN "capacity" ELSE "rate"

\* the message ttl=60, flags "SAMPLE_START,TRIGGER_TRACE", BucketCapacity
\* 20.0, BucketRate 5.0
IsExampleMessage(unparsed) ==
  /\ unparsed.ttl = Some(60)
  /\ unparsed.flags = Some(<<"SAMPLE_START", ",", "TRIGGER_TRACE">>)
  /\ unparsed.arguments =
       << [key |-> "BucketCapacity", value |-> Payload(8, 20)],
          [key |-> "BucketRate", value |-> Payload(8, 5)] >>

\* C21: the 8-byte payload of each recognized argument key is stored in the
\* field of the bucket the key names, an unrecognized key changes nothing,
\* and the example message decodes to flags OK|SAMPLE_START|TRIGGERED_TRACE,
\* the one bucket DEFAULT {capacity 20, rate 5} and ttl 60.
C21_KeysNameBucketFields ==
  (result # None /\ result[1] # None) =>
    /\ \A i \in 1..Len(arg.arguments) :
         LET key == arg.arguments[i].key
             value == arg.arguments[i].value
         IN  /\ (key \in BucketKeys /\ value.len = 8) =>
                  /\ BucketOf(key) \in DOMAIN result[1].buckets
                  /\ result[1].buckets[BucketOf(key)][FieldOf(key)] = value.double
             /\ key \notin BucketKeys \cup {"SignatureKey"} =>
                  result[1] = parseSettings(WithoutArgument(arg, i))
    /\ IsExampleMessage(arg) =>
         /\ result[1].flags = {"OK", "SAMPLE_START", "TRIGGERED_TRACE"}
         /\ DOMAIN result[1].buckets = {"DEFAULT"}
         /\ result[1].buckets["DEFAULT"] = [capacity |-> 20, rate |-> 5]
         /\ result[1].ttl = 60

C21_Witness ==
  /\ result # None
  /\ IsExampleMessage(arg)
  /\ result[1] # None
  /\ result[1].buckets = [t \in {"DEFAULT"} |-> [capacity |-> 20, rate |-> 5]]


\* a step that issues a getSettings call
IssuesCall == Len(calls') > Len(calls)

\* C22: the loop has no terminal state: at every moment, whatever the
\* outcome of the attempts so far, another getSettings call is issued later,
\* so calls are issued again and again.
C22_LoopNeverEnds == []<><<IssuesCall>>_vars

C22_Witness ==
  /\ last # None /\ last.outcome = "decode"
  /\ prev # None /\ ~prev.success
  /\ completed >= 2
  /\ Len(calls) = 1
  /\ timers = << >>


\* C23: an attempt fails with the "Invalid collector" error only when the
\* configured address is malformed or its host name failed to resolve; a
\* transport failure after a successful resolution, the first request through
\* the real client included, is reported with its own error.
C23_InvalidCollectorOnlyWhenInvalid ==
  (last # None /\ last.outcome = "rejected" /\ logged = InvalidCollectorWarning) =>
    (ParseURL(NormalizeCollector(collector)) = None \/ dns = "rejected")


\* C24: after a successful update with a ttl of t seconds the next fetch is
\* armed max(0, t * 1000 - 15000) ms ahead: never negative, less than
\* t * 1000, and 0 for every t of 15 or less.
C24_RefreshDelay ==
  result # None =>
    LET t == arg.entry.ttl[1]
        armed == result[1].timers
    IN  /\ Len(armed) = 1
        /\ armed[1].delay.frac = 0
        /\ armed[1].delay.ms = (IF t * 1000 >= 15000 THEN t * 1000 - 15000 ELSE 0)
        /\ armed[1].delay.ms >= 0
        /\ armed[1].delay.ms < t * 1000
        /\ t <= 15 => armed[1].delay.ms = 0
        /\ result[1].settings # None /\ result[1].settings.ttl = t

C24_Witness ==
  /\ result # None
  /\ arg.entry.ttl = Some(16)
  /\ arg.retryTimeout = Ms(600000)
  /\ result[1].timers[1].delay = Ms(1000)
  /\ result[1].updates = 1


\* C25: localSettings returns the configured triggerTraceEnabled as
\* triggerMode for every span and every transaction-setting list, and
\* without a list it returns the configured tracing mode and calls no
\* matcher.
C25_TriggerModeUntouched ==
  result # None =>
    /\ result[1].triggerMode = arg.config.triggerTraceEnabled
    /\ arg.config.transactionSettings = None =>
         /\ result[1].tracingMode = BaseSettings.tracingMode
         /\ result[2] = << >>

C25_Witness ==
  /\ result # None
  /\ Matching # {}
  /\ arg.config.triggerTraceEnabled
  /\ arg.config.tracingMode = Some(FALSE)
  /\ result[1] = [tracingMode |-> Some(ALWAYS), triggerMode |-> TRUE]


\* the identifier of the request in `arg` when it is `scheme://host` and the
\* path for the attributes in `which`, and `<kind>:<name>` otherwise
IdentifierWhen(which) ==
  LET a == arg.request.attributes
  IN  IF which
      THEN a.scheme[1] \o "://" \o a.host[1] \o a.target[1]
      ELSE (IF arg.request.spanKind = 1 THEN "SERVER" ELSE "CLIENT")
             \o ":" \o arg.request.spanName

\* the request in `arg` without its http.method attribute
SameButMethod ==
  localSettings(CoreSampler(arg.config), arg.request.spanName,
                arg.request.spanKind,
                [arg.request.attributes EXCEPT !.method = None]).settings

AllPresent ==
  /\ arg.request.attributes.scheme # None
  /\ arg.request.attributes.host # None
  /\ arg.request.attributes.target # None

AllNonEmpty ==
  /\ AllPresent
  /\ arg.request.attributes.scheme # Some("")
  /\ arg.request.attributes.host # Some("")
  /\ arg.request.attributes.target # Some("")

\* C26: every matcher is called with `scheme://host` and the path when the
\* scheme, host and target attributes are all present, with
\* `<kind>:<name>` otherwise, and no other attribute changes the result.
C26_IdentifierWhenPresent ==
  result # None =>
    /\ \A i \in 1..Len(result[2]) : result[2][i] = IdentifierWhen(AllPresent)
    /\ result[1] = SameButMethod

\* C26 as the code has it: the URL form is used when the three attributes
\* are all present and none of them is the empty text.
C26_IdentifierWhenNonEmpty ==
  result # None =>
    /\ \A i \in 1..Len(result[2]) : result[2][i] = IdentifierWhen(AllNonEmpty)
    /\ result[1] = SameButMethod

C26_Witness ==
  /\ result # None
  /\ arg.request.attributes.scheme = Some("")
  /\ arg.request.attributes.host # None
  /\ arg.request.attributes.target # None
  /\ arg.request.attributes.method # None
  /\ Len(result[2]) = 2
  /\ result[2][2] = "SERVER:GET /users"


\* the entries of the response in `arg`, where it is an OK response
OkEntries ==
  IF /\ arg.settled.kind = "resolved"
     /\ arg.settled.response # None
     /\ arg.settled.response.result = "OK"
  THEN (IF arg.settled.response.settings = None THEN Some(<< >>)
        ELSE arg.settled.response.settings)
  ELSE None

\* the positions of the entries of type DEFAULT_SAMPLE_RATE
SampleRateEntries ==
  {i \in 1..Len(OkEntries[1]) : OkEntries[1][i].type = "DEFAULT_SAMPLE_RATE"}

\* what a decode failure leaves behind: no update, the invalid-settings
\* warning, a retry after the attempt's retry timeout
IsDecodeFailure(H) ==
  /\ H.settings = None
  /\ H.updates = 0
  /\ H.raised # << >>
  /\ H.raised[Len(H.raised)].message = "Retrieved sampling settings are invalid"
  /\ Len(H.timers) = 1
  /\ H.timers[1].delay = arg.retryTimeout

\* C27: of an OK response only the first entry of type DEFAULT_SAMPLE_RATE
\* is decoded: its Settings are published whatever the other entries are,
\* and if it does not decode (or there is none) the attempt is a decode
\* failure even when a later entry would decode.
C27_FirstSampleRateEntryOnly ==
  (result # None /\ OkEntries # None) =>
    IF SampleRateEntries = {} THEN IsDecodeFailure(result[1])
    ELSE LET first == CHOOSE i \in SampleRateEntries :
                        \A j \in SampleRateEntries : i <= j
             decoded == parseSettings(OkEntries[1][first])
         IN  IF decoded = None THEN IsDecodeFailure(result[1])
             ELSE /\ result[1].settings = decoded
                  /\ result[1].updates = 1

C27_Witness ==
  /\ result # None
  /\ OkEntries = Some(<<EntryOther, EntryNoTtl, Entry60>>)
  /\ IsDecodeFailure(result[1])


\* the texts the .catch handler of #loop logs
FailureMessages ==
  {"Failed to retrieve sampling settings"}
    \cup {"Failed to retrieve sampling settings (" \o e.message \o ")" :
            e \in {x \in TransportErrors : x.isError}
                   \cup {InvalidCollector(<<"collector.example.com">>)}}

\* the response in `arg` is a soft error: empty, or with a result that is
\* not OK
IsSoftError ==
  /\ arg.settled.kind = "resolved"
  /\ (arg.settled.response = None \/ arg.settled.response.result # "OK")

\* the one retry timer of an attempt that ran with a retry timeout of 500 ms
\* or of 600000 ms
RetryArmed(H) ==
  /\ Len(H.timers) = 1
  /\ H.timers[1].delay = arg.retryTimeout
  /\ H.timers[1].retryTimeout =
       (IF arg.retryTimeout = Ms(500) THEN Ms(750) ELSE Ms(600000))

\* C28: a soft error (TRY_LATER, LIMIT_EXCEEDED, another result that is not
\* OK, an empty response) arms a retry with backoff, publishes nothing and
\* warns only with the response's own non-empty warning text; "Failed to
\* retrieve sampling settings" is a warning of rejected calls only.
C28_SoftErrorNotAFailure ==
  result # None =>
    /\ IsSoftError =>
         /\ RetryArmed(result[1])
         /\ result[1].settings = None /\ result[1].updates = 0
         /\ result[1].raised =
              (IF arg.settled.response = None \/ arg.settled.response.warning = ""
               THEN << >>
               ELSE << [message |-> arg.settled.response.warning,
                        emitted |-> arg.settled.response.warning # arg.before] >>)
    /\ (\E i \in 1..Len(result[1].raised) :
          result[1].raised[i].message \in FailureMessages)
         <=> arg.settled.kind = "rejected"

C28_Witness ==
  /\ result # None
  /\ IsSoftError
  /\ arg.settled.response # None
  /\ arg.settled.response.result = "LIMIT_EXCEEDED"
  /\ arg.settled.response.warning = "collector warning"
  /\ arg.before = "Failed to retrieve sampling settings"
  /\ arg.retryTimeout = Ms(500)
  /\ result[1].logged = "collector warning"
  /\ result[1].timers[1].delay = Ms(500)


\* the arguments of the message in `arg` that name a field of bucket `type`
\* and whose payload could be read
ParsedFields(type) ==
  {i \in 1..Len(arg.arguments) :
     /\ arg.arguments[i].key \in BucketKeys
     /\ BucketOf(arg.arguments[i].key) = type
     /\ arg.arguments[i].value.len >= 8}

\* the value of field `field` of bucket `type`: the payload read for it, or
\* the default
FieldValue(type, field) ==
  LET S == {i \in ParsedFields(type) : FieldOf(arg.arguments[i].key) = field}
  IN  IF S = {} THEN 0 ELSE arg.arguments[CHOOSE i \in S : TRUE].value.double

C30_PublishedBeforeReady ==
  [][(ready = "pending" /\ ready' = "resolved" /\ last'.outcome = "success") =>
       /\ settings' # None
       /\ settings' = latestOk'.value
       /\ updates' = 1]_vars

C30_Witness ==
  /\ ready = "resolved"
  /\ completed = 1
  /\ last # None /\ last.outcome = "success"
  /\ prev = None
  /\ settings = parseSettings(Entry10)


\* the first entry of type DEFAULT_SAMPLE_RATE of the OK response in `arg`
\* has a ttl of 0
FirstEntryHasZeroTtl ==
  /\ OkEntries # None
  /\ SampleRateEntries # {}
  /\ LET first == CHOOSE i \in SampleRateEntries :
                    \A j \in SampleRateEntries : i <= j
     IN  OkEntries[1][first].ttl = Some(0)

\* C31: every published Settings value has a ttl that is not 0: a message
\* with a ttl of 0 is rejected like a message without ttl, and the attempt
\* takes the decode-failure path (warning, retry with backoff, no update).
C31_ZeroTtlNeverPublished ==
  result # None =>
    /\ result[1].settings # None => result[1].settings.ttl > 0
    /\ FirstEntryHasZeroTtl =>
         /\ IsDecodeFailure(result[1])
         /\ RetryArmed(result[1])
         /\ result[1].ready = "resolved"
    /\ \A e \in EntryPool :
         e.ttl = Some(0) =>
           (parseSettings(e) = None /\ parseSettings([e EXCEPT !.ttl = None]) = None)

C31_Witness ==
  /\ result # None
  /\ OkEntries = Some(<<EntryOther, EntryZeroTtl, Entry60>>)
  /\ arg.before = ""
  /\ arg.retryTimeout = Ms(500)
  /\ arg.settled.response.warning = ""
  /\ result[1].settings = None
  /\ result[1].logged = "Retrieved sampling settings are invalid"
  /\ result[1].timers = << [delay |-> Ms(500), retryTimeout |-> Ms(750)] >>


====
